---- MODULE Spec2Model ----
(***************************************************************************)
(* Model of SpineExporter (src/main.py): the scale search of export_spine, *)
(* the probe try_export, and the thread-pool batch run_export_in_threads.  *)
(*                                                                         *)
(* Scales are kept as integer percentages: the float export_scale 1.0 of   *)
(* line 57 is 100, and middle / 100 of line 81 is kept as middle.          *)
(* print(x) is two writes on sys.stdout: the text, then the "\n".          *)
(***************************************************************************)
EXTENDS Integers, Sequences, FiniteSets, TLC

\* ---------------------------------------------------------------- bounds
MaxJobs == 3
MaxWorkers == 2
MaxT == 101
MaxPng == 2

\* ------------------------------------------------------ program constants
FullScale == 100
LeftInit == 10
RightInit == 100
OkInit == 100
Step == 2

VARIABLES
    assets,       \* per Job: the .spine file, as directory and base name
    output,       \* whether --output was given
    mode,         \* "single": main() calls export_spine (line 190); "batch": line 188
    spine_paths,  \* number of input assets handed to the run
    max_workers,  \* ThreadPoolExecutor(max_workers=...)
    stub,         \* per Job: the behaviour of the external renderer
    job,          \* per Job: the locals of export_spine and its position
    calls,        \* per Job: the probe calls made so far, with their outcome
    main,         \* the thread running run_export_in_threads
    queue,        \* the executor's work queue (Jobs submitted, not started)
    line,         \* sys.stdout: writers of the text after the last "\n"
    progress      \* the completed counts of the progress lines emitted

vars == <<assets, output, mode, spine_paths, max_workers, stub, job, calls, main, queue, line, progress>>

Jobs == 1..spine_paths
MainThread == 0

\* ------------------------------------------------------------- paths
\* the .spine files of the input tree, in the order os.walk lists them
Walk ==
    << [dir |-> "a", base |-> "hero"], [dir |-> "a", base |-> "boss"],
       [dir |-> "b", base |-> "hero"], [dir |-> "b", base |-> "boss"] >>

\* output=None
NoPath == [root |-> FALSE, dir |-> "", base |-> ""]

\* args.output itself, the output of a single-file run
OutputRoot == [root |-> TRUE, dir |-> "", base |-> ""]

\* lines 130-132: os.path.join(output, basename without extension)
UnderOutput(a) == [root |-> TRUE, dir |-> "", base |-> a.base]

\* lines 58-59: the input path without extension, with "_export" appended
BesideInput(a) == [root |-> FALSE, dir |-> a.dir, base |-> a.base]

\* ------------------------------------------------------ external renderer
\* What one run of the external tool leaves behind: exit code, whether the
\* captured stdout holds "Image does not fit within max page", and the number
\* of .png files then found in the output directory (MaxPng stands for several).
Outcomes ==
    [rc : {0}, sig : {FALSE}, pngs : 0..MaxPng] \cup
    [rc : {1}, sig : BOOLEAN, pngs : 0..MaxPng]

\* Stubs: "thr" is the monotonic stub that fits iff scale <= T (a misfit is
\* the oversize exit, writing nothing); "err" is a broken tool that exits
\* non-zero without the signature at every scale; "any" may answer anything
\* at each call.
Stubs ==
    [kind : {"thr"}, T : 0..MaxT] \cup [kind : {"err", "any"}, T : {0}]

StubOutcomes(s, scale, before) ==
    IF s.kind = "thr"
    THEN IF scale <= s.T
         THEN {[rc |-> 0, sig |-> FALSE, pngs |-> 1]}
         ELSE {[rc |-> 1, sig |-> TRUE, pngs |-> before]}
    ELSE IF s.kind = "err"
         THEN {[rc |-> 1, sig |-> FALSE, pngs |-> before]}
         ELSE Outcomes

\* subprocess.run raises when the executable cannot be spawned
SpawnResults(s) == IF s.kind = "any" THEN BOOLEAN ELSE {TRUE}

\* ------------------------------------------------------------ try_export
\* variant: any .png in the folder counts
check_output_folder_Some(pngs) == pngs >= 1

check_output_folder(pngs) == pngs = 1

PrintsError(o) == o.rc # 0 /\ ~o.sig

try_export(o) ==
    IF o.rc # 0 THEN FALSE ELSE check_output_folder(o.pngs)

Classify(o) ==
    IF o.rc # 0
    THEN IF o.sig THEN "DoesNotFit" ELSE "Error"
    ELSE IF check_output_folder(o.pngs) THEN "Fits" ELSE "DoesNotFit"

\* ---------------------------------------------------------- export_spine
\* variant: the odd midpoint is not moved to the even grid
Mid_NoRound(left, right) == (left + right) \div 2

\* variant: the odd midpoint is moved down to the even grid
Mid_Down(left, right) ==
    LET m == (left + right) \div 2
    IN  IF m % 2 = 1 THEN m - 1 ELSE m

Mid(left, right) ==
    LET m == (left + right) \div 2
    IN  IF m % 2 = 1 THEN m + 1 ELSE m

\* variant: the value after the fitting midpoint is remembered
OnFits_Next(r) == [r EXCEPT !.ok_value = r.middle + Step, !.left = r.middle + Step]

\* variant: a fitting midpoint narrows the search downward
OnFits_Lower(r) == [r EXCEPT !.ok_value = r.middle, !.right = r.middle - Step]

OnFits(r) == [r EXCEPT !.ok_value = r.middle, !.left = r.middle + Step]

\* variant: the upper bound skips one grid value
OnMisfit_Wide(r) == [r EXCEPT !.right = r.middle - 2 * Step]

\* variant: the failing midpoint stays inside the range
OnMisfit_Stay(r) == [r EXCEPT !.right = r.middle]

OnMisfit(r) == [r EXCEPT !.right = r.middle - Step]

\* variant: the final export is made without looking at ok_value
AfterLoop_Always(r) ==
    [r EXCEPT !.export_scale = r.ok_value, !.phase = "final",
              !.arg = r.ok_value, !.pc = "call"]

AfterLoop(r) ==
    IF r.ok_value # OkInit
    THEN [r EXCEPT !.export_scale = r.ok_value, !.phase = "final",
                   !.arg = r.ok_value, !.pc = "call"]
    ELSE [r EXCEPT !.failed = TRUE, !.pc = "report"]

LoopHead(r) ==
    IF r.left <= r.right
    THEN LET m == Mid(r.left, r.right)
         IN  [r EXCEPT !.middle = m, !.phase = "bisect", !.arg = m, !.pc = "call"]
    ELSE AfterLoop(r)

\* variant: the result of the full-scale export is ignored
AfterFull_NoFast(r, ret) ==
    LoopHead([r EXCEPT !.left = LeftInit, !.right = RightInit, !.ok_value = OkInit])

AfterFull(r, ret) ==
    IF ret
    THEN [r EXCEPT !.pc = "report"]
    ELSE LoopHead([r EXCEPT !.left = LeftInit, !.right = RightInit,
                            !.ok_value = OkInit])

\* control returns from try_export with value ret
Returned(r, ret) ==
    CASE r.phase = "full"   -> AfterFull(r, ret)
      [] r.phase = "bisect" -> LoopHead(IF ret THEN OnFits(r) ELSE OnMisfit(r))
      [] r.phase = "final"  -> [r EXCEPT !.pc = "report"]

JobInit ==
    [pc |-> "idle", tmp_dir |-> FALSE, export_scale |-> 0, failed |-> FALSE,
     left |-> 0, right |-> 0, ok_value |-> 0, middle |-> 0,
     phase |-> "full", arg |-> 0, ret |-> FALSE, pngs |-> 0,
     spawned |-> 0, result |-> "none", scale |-> 0,
     output |-> NoPath, output_path |-> NoPath, error |-> "none",
     rc |-> 0, sig |-> FALSE, errlines |-> 0]

\* ----------------------------------------------------------------- stdout
WriteText(w) == line' = Append(line, w)
WriteNl == line' = <<>>

\* ------------------------------------------------------------ the pool
\* the future of a Job is done once export_spine returned or raised
Finished(j) == job[j].pc \in {"done", "raised"}

Running == {j \in Jobs : job[j].pc \notin {"idle", "queued", "done", "raised"}}

\* variant: a thread is started for every submitted Job
CanRun_Unbounded(j) ==
    IF mode = "single"
    THEN job[j].pc = "idle"
    ELSE /\ job[j].pc = "queued"
         /\ queue # <<>> /\ Head(queue) = j

CanRun(j) ==
    IF mode = "single"
    THEN job[j].pc = "idle"
    ELSE /\ job[j].pc = "queued"
         /\ queue # <<>> /\ Head(queue) = j
         /\ Cardinality(Running) < max_workers

\* lines 54-56: mkdtemp, first half of print("Processing ...")
Begin(j) ==
    /\ CanRun(j)
    /\ job' = [job EXCEPT ![j].pc = "processing", ![j].tmp_dir = TRUE,
                          ![j].output = IF mode = "single"
                                        THEN IF output THEN OutputRoot ELSE NoPath
                                        ELSE @]
    /\ queue' = IF mode = "single" THEN queue ELSE Tail(queue)
    /\ WriteText(j)
    /\ UNCHANGED <<assets, output, mode, spine_paths, max_workers, stub, calls, main, progress>>

\* end of line 56, lines 57-71: makedirs and copyfile may raise
Setup(j) ==
    /\ job[j].pc = "processing"
    /\ WriteNl
    /\ \E fs \in {"ok", "makedirs", "copyfile"} :
         job' = [job EXCEPT ![j] =
                   IF fs = "ok"
                   THEN [@ EXCEPT !.export_scale = FullScale, !.phase = "full",
                                  !.arg = FullScale, !.pc = "call",
                                  !.output_path = IF job[j].output # NoPath
                                                  THEN job[j].output
                                                  ELSE BesideInput(assets[j])]
                   ELSE [@ EXCEPT !.pc = "raised", !.error = "setup"]]
    /\ UNCHANGED <<assets, output, mode, spine_paths, max_workers, stub, calls, main, queue, progress>>

\* try_export lines 41-44: rewrite the config and spawn the renderer
ProbeStart(j) ==
    /\ job[j].pc = "call"
    /\ \E ok \in SpawnResults(stub[j]) :
         job' = [job EXCEPT ![j] =
                   IF ok
                   THEN [@ EXCEPT !.pc = "inflight", !.spawned = @ + 1]
                   ELSE [@ EXCEPT !.pc = "raised", !.error = "spawn"]]
    /\ UNCHANGED <<assets, output, mode, spine_paths, max_workers, stub, calls, main, queue, line, progress>>

\* try_export lines 44-50: the renderer exits and the outcome is classified
ProbeEnd(j) ==
    /\ job[j].pc = "inflight"
    /\ \E o \in StubOutcomes(stub[j], job[j].arg, job[j].pngs) :
         LET r == [job[j] EXCEPT !.pngs = o.pngs, !.ret = try_export(o),
                                 !.rc = o.rc, !.sig = o.sig,
                                 !.errlines = IF PrintsError(o) THEN @ + 1 ELSE @]
         IN  /\ calls' = [calls EXCEPT ![j] =
                   Append(@, [phase |-> r.phase, scale |-> r.arg, out |-> Classify(o)])]
             /\ IF PrintsError(o)
                THEN /\ job' = [job EXCEPT ![j] = [r EXCEPT !.pc = "error"]]
                     /\ WriteText(j)
                ELSE /\ job' = [job EXCEPT ![j] = Returned(r, r.ret)]
                     /\ UNCHANGED line
    /\ UNCHANGED <<assets, output, mode, spine_paths, max_workers, stub, main, queue, progress>>

\* variant: after an error the same scale is tried again
ErrorNl_Retry(j) ==
    /\ job[j].pc = "error"
    /\ WriteNl
    /\ job' = [job EXCEPT ![j].pc = "call"]
    /\ UNCHANGED <<assets, output, mode, spine_paths, max_workers, stub, calls, main, queue, progress>>

\* end of the print of line 48, return False of line 49
ErrorNl(j) ==
    /\ job[j].pc = "error"
    /\ WriteNl
    /\ job' = [job EXCEPT ![j] = Returned(@, @.ret)]
    /\ UNCHANGED <<assets, output, mode, spine_paths, max_workers, stub, calls, main, queue, progress>>

\* lines 107-118: the result line; png_files[0] raises on an empty listing
Report(j) ==
    /\ job[j].pc = "report"
    /\ IF job[j].failed
       THEN /\ job' = [job EXCEPT ![j].pc = "result", ![j].result = "failed"]
            /\ WriteText(j)
       ELSE IF job[j].pngs = 0
            THEN /\ job' = [job EXCEPT ![j].pc = "raised", ![j].error = "index"]
                 /\ UNCHANGED line
            ELSE /\ job' = [job EXCEPT ![j].pc = "result", ![j].result = "success",
                                       ![j].scale = job[j].export_scale]
                 /\ WriteText(j)
    /\ UNCHANGED <<assets, output, mode, spine_paths, max_workers, stub, calls, main, queue, progress>>

\* end of the print of line 112 or 118, then shutil.rmtree(tmp_dir), line 119
Finish(j) ==
    /\ job[j].pc = "result"
    /\ WriteNl
    /\ job' = [job EXCEPT ![j].pc = "done", ![j].tmp_dir = FALSE]
    /\ UNCHANGED <<assets, output, mode, spine_paths, max_workers, stub, calls, main, queue, progress>>

\* one step of the thread running export_spine for each Job
DoBegin == \E j \in Jobs : Begin(j)
DoSetup == \E j \in Jobs : Setup(j)
DoProbeStart == \E j \in Jobs : ProbeStart(j)
DoProbeEnd == \E j \in Jobs : ProbeEnd(j)
DoErrorNl == \E j \in Jobs : ErrorNl(j)
DoReport == \E j \in Jobs : Report(j)
DoFinish == \E j \in Jobs : Finish(j)

\* ------------------------------------------------- main(), single file
InitJob ==
    /\ assets = SubSeq(Walk, 1, 1)
    /\ output = FALSE
    /\ mode = "single"
    /\ spine_paths = 1
    /\ max_workers = 1
    /\ stub \in [1..1 -> Stubs]
    /\ job = [j \in 1..1 |-> JobInit]
    /\ calls = [j \in 1..1 |-> <<>>]
    /\ main = [pc |-> "single", completed |-> 0, submitted |-> 0, yielded |-> <<>>]
    /\ queue = <<>>
    /\ line = <<>>
    /\ progress = <<>>

NextJob ==
    \/ DoBegin
    \/ DoSetup
    \/ DoProbeStart
    \/ DoProbeEnd
    \/ DoErrorNl
    \/ DoReport
    \/ DoFinish

SpecJob == InitJob /\ [][NextJob]_vars

\* ===================================================== properties checked
EvenScales == {s \in LeftInit..FullScale : s % 2 = 0}

FitSet(T) == {s \in EvenScales : s <= T}

MaxOf(S) == CHOOSE m \in S : \A x \in S : x <= m

Reported(j) == job[j].result # "none"

CallsOf(j, ph) == {i \in DOMAIN calls[j] : calls[j][i].phase = ph}

FitCalls(j) == {i \in DOMAIN calls[j] : calls[j][i].out = "Fits"}

\* C1: with the monotonic stub (fits iff scale <= T) a Job that reports
\* reports success with the largest even scale of [10,100] that is <= T,
\* and reports failure exactly when no even scale of [10,100] is <= T.
C1_MonotonicSearch ==
    \A j \in Jobs :
        (stub[j].kind = "thr" /\ Reported(j)) =>
            IF FitSet(stub[j].T) = {}
            THEN job[j].result = "failed"
            ELSE /\ job[j].result = "success"
                 /\ job[j].scale = MaxOf(FitSet(stub[j].T))

C1_Witness ==
    \E j \in Jobs :
        /\ stub[j] = [kind |-> "thr", T |-> 42]
        /\ job[j].pc = "done"
        /\ job[j].result = "success" /\ job[j].scale = 42
        /\ Len(calls[j]) > 2

\* C2: the first probe of a Job is at scale 100; when it fits, it stays the
\* only probe, no bisection state is set up, and the Job goes on to report
\* success with scale 100.
C2_FastPath ==
    \A j \in Jobs :
        calls[j] # <<>> =>
            /\ calls[j][1].scale = FullScale
            /\ calls[j][1].phase = "full"
            /\ calls[j][1].out = "Fits" =>
                 /\ Len(calls[j]) = 1
                 /\ job[j].spawned = 1
                 /\ job[j].pc \in {"report", "result", "done"}
                 /\ ~job[j].failed
                 /\ job[j].export_scale = FullScale
                 /\ job[j].pc # "report" =>
                        job[j].result = "success" /\ job[j].scale = FullScale

C2_Witness ==
    \E j \in Jobs :
        /\ stub[j].kind = "any"
        /\ job[j].pc = "done"
        /\ Len(calls[j]) = 1 /\ calls[j][1].out = "Fits"
        /\ job[j].result = "success" /\ job[j].scale = FullScale

\* C3: every scale handed to try_export (about to be probed, in flight, or
\* already probed) is an even integer of [10,100].
C3_Quantization ==
    \A j \in Jobs :
        /\ \A i \in DOMAIN calls[j] : calls[j][i].scale \in EvenScales
        /\ job[j].pc \in {"call", "inflight"} => job[j].arg \in EvenScales

C3_Witness ==
    \E j \in Jobs :
        /\ stub[j].kind = "any"
        /\ CallsOf(j, "final") # {}
        /\ Cardinality(CallsOf(j, "bisect")) >= 5

\* C4: a Job all of whose probes answered DoesNotFit makes at most 7 probes
\* (1 full-scale, at most 6 in the bisection), none of them a final
\* re-confirmation, never prints the success line, and ends with the failure line.
AllMisfit(j) == \A i \in DOMAIN calls[j] : calls[j][i].out = "DoesNotFit"

C4_Exhaustion ==
    \A j \in Jobs :
        AllMisfit(j) =>
            /\ Len(calls[j]) <= 7
            /\ job[j].spawned <= 7
            /\ Cardinality(CallsOf(j, "bisect")) <= 6
            /\ CallsOf(j, "final") = {}
            /\ job[j].result # "success"
            /\ job[j].pc = "done" => job[j].result = "failed"

C4_Witness ==
    \E j \in Jobs :
        /\ AllMisfit(j)
        /\ Len(calls[j]) = 7
        /\ job[j].pc = "done" /\ job[j].result = "failed"

\* C5: a Job one of whose bisection probes answered Fits does not take the
\* failure branch: it makes the final probe at ok_value ("none found" is
\* told apart from every scale the bisection probed).
BisectFits(j) == CallsOf(j, "bisect") \cap FitCalls(j)

C5_SentinelDistinct ==
    \A j \in Jobs :
        /\ BisectFits(j) # {} => ~job[j].failed
        /\ (BisectFits(j) # {} /\ job[j].pc \in {"report", "result", "done"}) =>
               \E i \in CallsOf(j, "final") : calls[j][i].scale = job[j].export_scale

\* C6: a success line with scale s is printed only after a probe of the same
\* Job at scale s answered Fits.
C6_ReconfirmSound ==
    \A j \in Jobs :
        job[j].result = "success" =>
            \E i \in FitCalls(j) : calls[j][i].scale = job[j].scale

C6_Witness ==
    \E j \in Jobs :
        /\ job[j].result = "success"
        /\ job[j].scale # FullScale
        /\ CallsOf(j, "final") # {}
        /\ \A i \in CallsOf(j, "final") : calls[j][i].out # "Fits"

\* C7: once export_spine has returned or raised, its temporary directory is gone.
C7_WorkspaceCleanup ==
    \A j \in Jobs : Finished(j) => ~job[j].tmp_dir

\* ------------------------------------------------ run_export_in_threads
BatchT == {42, FullScale}

BatchStubs == [kind : {"thr"}, T : BatchT] \cup [kind : {"err"}, T : {0}]

\* an asset that does not fit at full scale; in a batch only the first
\* asset submitted may be one
NeedsSearch(s) == s.kind # "thr" \/ s.T < FullScale

Range(f) == {f[i] : i \in DOMAIN f}

\* line 123, first half of print("Found ...")
Announce ==
    /\ main.pc = "start"
    /\ main' = [main EXCEPT !.pc = "found"]
    /\ WriteText(MainThread)
    /\ UNCHANGED <<assets, output, mode, spine_paths, max_workers, stub, job, calls, queue, progress>>

\* end of line 123, lines 124-126: the executor is created
CreatePool ==
    /\ main.pc = "found"
    /\ WriteNl
    /\ main' = [main EXCEPT !.pc = "submit"]
    /\ UNCHANGED <<assets, output, mode, spine_paths, max_workers, stub, job, calls, queue, progress>>

\* lines 127-134: one executor.submit per spine path, in order
Submit ==
    /\ main.pc = "submit"
    /\ main.submitted < spine_paths
    /\ LET j == main.submitted + 1
       IN  /\ job' = [job EXCEPT ![j].pc = "queued",
                                 ![j].output = IF output
                                               THEN UnderOutput(assets[j])
                                               ELSE NoPath]
           /\ queue' = Append(queue, j)
           /\ main' = [main EXCEPT !.submitted = j]
    /\ UNCHANGED <<assets, output, mode, spine_paths, max_workers, stub, calls, line, progress>>

\* line 136: the loop of line 127 is over
StartWaiting ==
    /\ main.pc = "submit"
    /\ main.submitted = spine_paths
    /\ main' = [main EXCEPT !.pc = "wait", !.completed = 0]
    /\ UNCHANGED <<assets, output, mode, spine_paths, max_workers, stub, job, calls, queue, line, progress>>

\* variant: the progress line is printed with the count before the increment
AsCompleted_Stale ==
    /\ main.pc = "wait"
    /\ \E j \in Jobs \ Range(main.yielded) :
         /\ Finished(j)
         /\ main' = [main EXCEPT !.pc = "progress", !.completed = @ + 1,
                                 !.yielded = Append(@, j)]
    /\ progress' = Append(progress, main.completed)
    /\ WriteText(MainThread)
    /\ UNCHANGED <<assets, output, mode, spine_paths, max_workers, stub, job, calls, queue>>

\* lines 137-142: as_completed yields a finished future; first half of the print
AsCompleted ==
    /\ main.pc = "wait"
    /\ \E j \in Jobs \ Range(main.yielded) :
         /\ Finished(j)
         /\ main' = [main EXCEPT !.pc = "progress", !.completed = @ + 1,
                                 !.yielded = Append(@, j)]
    /\ progress' = Append(progress, main.completed + 1)
    /\ WriteText(MainThread)
    /\ UNCHANGED <<assets, output, mode, spine_paths, max_workers, stub, job, calls, queue>>

\* end of the print of line 142
ProgressNl ==
    /\ main.pc = "progress"
    /\ WriteNl
    /\ main' = [main EXCEPT !.pc = "wait"]
    /\ UNCHANGED <<assets, output, mode, spine_paths, max_workers, stub, job, calls, queue, progress>>

\* line 143: as_completed is exhausted, executor.shutdown()
Shutdown ==
    /\ main.pc = "wait"
    /\ Range(main.yielded) = Jobs
    /\ main' = [main EXCEPT !.pc = "done"]
    /\ UNCHANGED <<assets, output, mode, spine_paths, max_workers, stub, job, calls, queue, line, progress>>

InitBatch ==
    /\ mode = "batch"
    /\ spine_paths \in 1..MaxJobs
    /\ assets = SubSeq(Walk, 1, spine_paths)
    /\ output = FALSE
    /\ max_workers \in 1..MaxWorkers
    /\ stub \in {f \in [1..spine_paths -> BatchStubs] :
                   \A j \in 2..spine_paths : ~NeedsSearch(f[j])}
    /\ job = [j \in 1..spine_paths |-> JobInit]
    /\ calls = [j \in 1..spine_paths |-> <<>>]
    /\ main = [pc |-> "start", completed |-> 0, submitted |-> 0, yielded |-> <<>>]
    /\ queue = <<>>
    /\ line = <<>>
    /\ progress = <<>>

NextBatch ==
    \/ Announce
    \/ CreatePool
    \/ Submit
    \/ StartWaiting
    \/ AsCompleted
    \/ ProgressNl
    \/ Shutdown
    \/ DoBegin
    \/ DoSetup
    \/ DoProbeStart
    \/ DoProbeEnd
    \/ DoErrorNl
    \/ DoReport
    \/ DoFinish

SpecBatch == InitBatch /\ [][NextBatch]_vars

\* threads are scheduled by the operating system: a runnable thread runs
FairBatch ==
    /\ SpecBatch
    /\ WF_vars(NextBatch)

\* a batch over any choice of the files of the tree, with or without --output
Pick(S) ==
    LET RECURSIVE Sub(_, _)
        Sub(i, acc) == IF i > Len(Walk) THEN acc
                       ELSE Sub(i + 1, IF i \in S THEN Append(acc, Walk[i]) ELSE acc)
    IN  Sub(1, <<>>)

InitPaths ==
    /\ mode = "batch"
    /\ \E S \in SUBSET (DOMAIN Walk) :
         /\ S # {}
         /\ Cardinality(S) <= MaxJobs
         /\ spine_paths = Cardinality(S)
         /\ assets = Pick(S)
    /\ output \in BOOLEAN
    /\ max_workers \in 1..MaxWorkers
    /\ stub \in {f \in [1..spine_paths -> BatchStubs] :
                   \A j \in 2..spine_paths : ~NeedsSearch(f[j])}
    /\ job = [j \in 1..spine_paths |-> JobInit]
    /\ calls = [j \in 1..spine_paths |-> <<>>]
    /\ main = [pc |-> "start", completed |-> 0, submitted |-> 0, yielded |-> <<>>]
    /\ queue = <<>>
    /\ line = <<>>
    /\ progress = <<>>

SpecPaths == InitPaths /\ [][NextBatch]_vars

\* C8: never more than max_workers Jobs are executing, hence never more than
\* max_workers renderer processes are alive; a Job has a renderer process
\* alive exactly while it waits in subprocess.run, and every earlier probe
\* of that Job has its outcome recorded by then.
InFlight == {j \in Jobs : job[j].pc = "inflight"}

C8_BoundedParallelism ==
    /\ Cardinality(Running) <= max_workers
    /\ Cardinality(InFlight) <= max_workers
    /\ \A j \in Jobs :
         job[j].spawned - Len(calls[j]) = IF j \in InFlight THEN 1 ELSE 0

C8_Witness ==
    /\ max_workers >= 2
    /\ spine_paths > max_workers
    /\ Cardinality(InFlight) = max_workers
    /\ queue # <<>>
    /\ \E j \in InFlight : Len(calls[j]) >= 1

\* C9: under fair scheduling the run reaches executor.shutdown() with every
\* Job's future done, and the progress lines carry the counts 1, 2, ..., N
\* in that order, whatever the order in which the Jobs finished.
C9_BatchCompletion ==
    /\ <>(main.pc = "done" /\ \A j \in Jobs : Finished(j))
    /\ [](\A i \in DOMAIN progress : progress[i] = i)
    /\ [](main.pc = "done" => Len(progress) = spine_paths)

C9_Witness ==
    /\ main.pc = "done"
    /\ spine_paths > max_workers
    /\ spine_paths >= 3
    /\ main.yielded[1] # 1
    /\ progress = [i \in 1..spine_paths |-> i]
    /\ \E j \in Jobs : job[j].pc = "raised"

\* C10: the text of a line on sys.stdout is followed by its own "\n" before
\* any other writer's text.
C10_NoInterleaving == Len(line) <= 1

\* C11: no two Jobs of a run resolve to the same output directory (each
\* Job's workspace is a fresh mkdtemp directory of its own).
Resolved(j) == job[j].output_path # NoPath

C11_JobIsolation ==
    \A i, j \in Jobs :
        (i # j /\ Resolved(i) /\ Resolved(j)) =>
            job[i].output_path # job[j].output_path

\* C12: a Job stopped by an error of its own is counted by the progress
\* lines and has printed a failure result line by then.
C12_FailureReported ==
    \A j \in Range(main.yielded) :
        job[j].error # "none" => job[j].result = "failed"

\* C13: a renderer that cannot be spawned does not end the Job with an
\* exception: the probe is recorded with the outcome Error and the Job goes on.
C13_SpawnFailureIsError ==
    \A j \in Jobs :
        job[j].error = "spawn" =>
            /\ job[j].pc # "raised"
            /\ calls[j] # <<>>
            /\ calls[j][Len(calls[j])].out = "Error"

\* C14: the last probe returned True exactly when the tool exited 0 and one
\* .png is in the output directory; exit 0 with another count, and a
\* non-zero exit with the oversize signature, are DoesNotFit and print
\* nothing; a non-zero exit without the signature is Error, and its message
\* is written in the very step that ends the probe.
LastCall(j) == calls[j][Len(calls[j])]

ErrorCalls(j) == {i \in DOMAIN calls[j] : calls[j][i].out = "Error"}

C14_Classification ==
    \A j \in Jobs :
        calls[j] # <<>> =>
            LET c == LastCall(j)
                r == job[j]
            IN  /\ r.ret <=> (r.rc = 0 /\ r.pngs = 1)
                /\ c.out = "Fits" <=> r.ret
                /\ (r.rc = 0 /\ r.pngs # 1) => c.out = "DoesNotFit"
                /\ (r.rc # 0 /\ r.sig) => c.out = "DoesNotFit"
                /\ (r.rc # 0 /\ ~r.sig) => c.out = "Error"
                /\ r.errlines = Cardinality(ErrorCalls(j))
                /\ r.pc = "error" => c.out = "Error"

C14_Witness ==
    \E j \in Jobs :
        /\ job[j].pc = "error"
        /\ job[j].rc # 0 /\ ~job[j].sig /\ job[j].pngs = 1
        /\ job[j].errlines = 1
        /\ FitCalls(j) # {}
        /\ \E i \in DOMAIN calls[j] : calls[j][i].out = "DoesNotFit"

\* C15: the search state of a Job is the one reached by running the search
\* on its probe history with every Error read as DoesNotFit: the same scales
\* were probed in the same order, and the bounds, ok_value, the failed flag
\* and export_scale are the same.
SearchStart ==
    [JobInit EXCEPT !.export_scale = FullScale, !.phase = "full",
                    !.arg = FullScale, !.pc = "call"]

SearchFields(r) ==
    <<r.left, r.right, r.ok_value, r.middle, r.phase, r.arg, r.failed, r.export_scale>>

RECURSIVE Replay(_, _, _)
Replay(cs, r, ok) ==
    IF cs = <<>>
    THEN [rec |-> r, ok |-> ok]
    ELSE LET c == Head(cs)
         IN  Replay(Tail(cs), Returned(r, c.out = "Fits"),
                    ok /\ r.pc = "call" /\ c.scale = r.arg /\ c.phase = r.phase)

Searching(j) ==
    /\ job[j].pc \notin {"idle", "queued", "processing"}
    /\ job[j].error # "setup"

Answered(j) ==
    IF job[j].pc = "error" THEN SubSeq(calls[j], 1, Len(calls[j]) - 1) ELSE calls[j]

C15_ErrorAsMisfit ==
    \A j \in Jobs :
        Searching(j) =>
            LET p == Replay(Answered(j), SearchStart, TRUE)
            IN  /\ p.ok
                /\ SearchFields(job[j]) = SearchFields(p.rec)
                /\ job[j].pc \in {"report", "result", "done"} => p.rec.pc = "report"
                /\ job[j].pc \in {"call", "inflight", "error"} => p.rec.pc = "call"

C15_Witness ==
    \E j \in Jobs :
        /\ job[j].pc = "done" /\ job[j].result = "success"
        /\ Cardinality(ErrorCalls(j) \cap CallsOf(j, "bisect")) >= 2
        /\ \E i \in ErrorCalls(j) : i < Len(calls[j]) /\ calls[j][i + 1].scale < calls[j][i].scale

\* C16: every bisection probe is at a scale of [10,98], so 100 is not probed
\* again after the full-scale probe, and no two bisection probes of a Job
\* are at the same scale.
C16_BisectBelowFull ==
    \A j \in Jobs :
        /\ \A i \in CallsOf(j, "bisect") :
               calls[j][i].scale \in LeftInit..(FullScale - Step)
        /\ \A i, k \in CallsOf(j, "bisect") :
               i # k => calls[j][i].scale # calls[j][k].scale

\* C17 (as claimed): in a bisection iteration the bounds are even with
\* left <= right, and the probed midpoint is (left+right)/2 rounded down to
\* an even integer, within [left, right].
AtMid(j) == job[j].phase = "bisect" /\ job[j].pc \in {"call", "inflight"}

Half(j) == (job[j].left + job[j].right) \div 2

EvenBounds(j) ==
    /\ job[j].left % 2 = 0 /\ job[j].right % 2 = 0
    /\ job[j].left <= job[j].right
    /\ job[j].left <= job[j].middle /\ job[j].middle <= job[j].right
    /\ job[j].arg = job[j].middle

C17_MidRoundedDown ==
    \A j \in Jobs :
        AtMid(j) =>
            /\ EvenBounds(j)
            /\ job[j].middle = Half(j) - (Half(j) % 2)

\* C17 (amended): the probed midpoint is (left+right)/2 rounded up to an
\* even integer (left = 10, right = 100 probes 56), within [left, right].
C17_MidRoundedUp ==
    \A j \in Jobs :
        AtMid(j) =>
            /\ EvenBounds(j)
            /\ job[j].middle = Half(j) + (Half(j) % 2)

C17_Witness ==
    \E j \in Jobs :
        /\ AtMid(j) /\ job[j].pc = "inflight"
        /\ job[j].left = 10 /\ job[j].right = 100 /\ job[j].middle = 56

\* C18: during and after the bisection ok_value is the largest scale at
\* which a bisection probe of the Job answered Fits (its initial value while
\* there is none), the fitting bisection probes are at strictly growing
\* scales, and a success line printed after a bisection carries that largest
\* scale.
BisectFitScales(j) == {calls[j][i].scale : i \in BisectFits(j)}

C18_BestFitIsMax ==
    \A j \in Jobs :
        /\ \A i, k \in BisectFits(j) :
               i < k => calls[j][i].scale < calls[j][k].scale
        /\ (CallsOf(j, "bisect") # {} /\ BisectFits(j) = {}) =>
               job[j].ok_value = OkInit
        /\ BisectFits(j) # {} =>
               job[j].ok_value = MaxOf(BisectFitScales(j))
        /\ (job[j].result = "success" /\ CallsOf(j, "bisect") # {}) =>
               /\ BisectFits(j) # {}
               /\ job[j].scale = MaxOf(BisectFitScales(j))

C18_Witness ==
    \E j \in Jobs :
        /\ stub[j].kind = "any"
        /\ job[j].result = "success"
        /\ Cardinality(BisectFits(j)) >= 3
        /\ \E i \in CallsOf(j, "bisect") : calls[j][i].out # "Fits"
        /\ job[j].scale = MaxOf(BisectFitScales(j))

\* C19: a Job makes at most 6 bisection probes and at most 8 probes in all,
\* and every bisection iteration that ends leaves right - left strictly
\* smaller than it found it, whatever the probes answer.
IterationEnds(j) ==
    /\ job[j].phase = "bisect"
    /\ job[j].pc \in {"inflight", "error"}
    /\ job'[j].pc \in {"call", "report"}

C19_Termination ==
    /\ [](\A j \in Jobs :
            /\ Cardinality(CallsOf(j, "bisect")) <= 6
            /\ Len(calls[j]) <= 8
            /\ job[j].spawned <= 8)
    /\ [][\A j \in Jobs :
            IterationEnds(j) =>
                job'[j].right - job'[j].left < job[j].right - job[j].left]_vars

C19_Witness ==
    \E j \in Jobs :
        /\ job[j].pc = "done"
        /\ Cardinality(CallsOf(j, "bisect")) = 6
        /\ Len(calls[j]) = 8
        /\ job[j].left > job[j].right

\* C20: when the success line with scale s is printed, the last probe of
\* the Job was at scale s and answered Fits, and the output directory holds
\* exactly one .png.
C20_LastProbeFits ==
    \A j \in Jobs :
        job[j].result = "success" =>
            /\ LastCall(j).scale = job[j].scale
            /\ LastCall(j).out = "Fits"
            /\ job[j].pngs = 1

====
